---------------------------- MODULE Spec2Model ----------------------------
(***************************************************************************)
(* read-aloud-mcp: the speech generation / playback lifecycle of           *)
(* TTSHandler (tts_handler.py) and its two front ends in server.py, the    *)
(* MCP tool adapter handle_call_tool (server mode) and run_oneshot (CLI).  *)
(*                                                                         *)
(* Threads: thread 0 is the main thread (main, run_oneshot, and in server  *)
(* mode the asyncio event loop); thread r >= 1 is the executor thread      *)
(* that run_in_executor gives to tool call r.  The methods of TTSHandler   *)
(* are modelled once, as steps of whichever thread is executing them.      *)
(* Strings are sequences of tokens; \o is string concatenation.            *)
(***************************************************************************)
EXTENDS Integers, Sequences, FiniteSets, TLC

\* ------------------------------------------------------------- bounds
\* Tool calls the server receives in one run (one executor thread each).
MaxReq == 2
\* Longest text, in characters.
MaxLen == 1
\* Half milliseconds the wall clock advances in one run.
MaxTicks == 2

\* ----------------------------------------------------- program constants
UsPerMs == 1000
PreviewLen == 50

Chars == {" ", "a"}
Texts == UNION {[1..n -> Chars] : n \in 0..MaxLen}
\* Wall-clock time that can pass between two readings of the clock, in us.
Elapsed == {0, 500, 1000}
MaxNow == MaxTicks * 500

Main == 0
Workers == 1..MaxReq
Threads == {Main} \cup Workers
Handlers == {"srv", "one"}

\* ------------------------------------------------------ pure functions
RECURSIVE lstrip(_)
lstrip(s) == IF s # <<>> /\ Head(s) = " " THEN lstrip(Tail(s)) ELSE s

RECURSIVE rstrip(_)
rstrip(s) ==
    IF s # <<>> /\ s[Len(s)] = " " THEN rstrip(SubSeq(s, 1, Len(s) - 1)) ELSE s

\* "if not text" in place of "if not text.strip()".
NoStrip(s) == s

\* str.strip()
strip(s) == rstrip(lstrip(s))

\* Python truthiness of a str: the empty string is falsy.
Truthy(s) == Len(s) > 0

\* text[:50] + ('...' if len(text) > 50 else '')
Preview(s) ==
    SubSeq(s, 1, IF Len(s) < PreviewLen THEN Len(s) ELSE PreviewLen)
        \o (IF Len(s) > PreviewLen THEN <<"...">> ELSE <<>>)

\* The filename without the [:-3] cut: all six digits of %f.
MicrosecondFilename(us) == <<ToString(us), ".wav">>

\* now.strftime("%Y-%m-%d_%H-%M-%S-%f")[:-3] + ".wav": the microsecond
\* reading cut to milliseconds.
TimestampFilename(us) == <<ToString(us \div UsPerMs), ".wav">>

\* str(self.output_dir / filename)
OutputPath(name) == <<"audio_outputs/">> \o name

\* Exceptions: the class and str(e).
Exc(type, msg) == [type |-> type, msg |-> msg]
NoExc == Exc("none", <<>>)
ExceptionTypes == {"ValueError", "FileNotFoundError", "RuntimeError", "EngineError"}

\* Messages of the failures the opaque engines raise.
InitMsg == <<"no speech driver">>
SynthMsg == <<"synthesis failed">>
RateMsg == <<"rate not supported">>
MixerMsg == <<"no audio device">>
SoundMsg == <<"cannot play sound">>
NoMixerMsg == <<"mixer not initialized">>
MkdirMsg == <<"cannot create output directory">>

SuccessPrefix == <<"Successfully generated and played audio: ">>
ErrorPrefix == <<"Error processing text-to-speech: ">>
EmptyTextMsg == <<"Text cannot be empty">>
NotFoundMsg(name) == <<"Audio file not found: ">> \o OutputPath(name)
PlayFailMsg(m) == <<"Failed to play audio: ">> \o m


\* ------------------------------------------------------------- state
VARIABLES
    argv,      \* parsed command line: [text, no_play]
    stdout,    \* lines printed so far
    events,    \* the process's lifecycle events, in order
    exitCode,  \* -1 while the process runs, then its exit status
    files,     \* names of the files in the output directory
    now,       \* last reading of the wall clock, in microseconds
    mixerUp,   \* pygame.mixer is initialised (process-wide)
    handler,   \* the TTSHandler instances: "srv" is server.tts_handler,
               \* "one" is run_oneshot's local handler
    stats,     \* per handler, calls made so far (history)
    cleanups,  \* per handler, one record for each cleanup() call (history)
    th,        \* per thread, its position and the locals of its call
    call,      \* the tool call the event loop took up last: [id, name, arguments]
    status,    \* per tool call: "idle", "rejected", "running", "done"
    wire       \* the response the transport wrote last: [id, kind, text]

vars == <<argv, stdout, events, exitCode, files, now, mixerUp, handler, stats,
          cleanups, th, call, status, wire>>
procVars == <<argv, stdout, events, exitCode>>
envVars == <<files, now, mixerUp>>
hVars == <<handler, stats, cleanups>>
sVars == <<call, status, wire>>

\* args.text is None when --text is absent.
NoText == [given |-> FALSE, val |-> <<>>]
SomeText(s) == [given |-> TRUE, val |-> s]
\* The command lines: no option, or --text with or without --no-play.
Argvs ==
    {[text |-> NoText, no_play |-> FALSE]}
        \cup {[text |-> SomeText(s), no_play |-> b] : s \in Texts, b \in BOOLEAN}

\* A tool call's arguments: None, or a dict with some of the keys "text" and
\* "other"; the value under "text" is a str or something else (an int).
StrVal(s) == [type |-> "str", val |-> s]
IntVal == [type |-> "int", val |-> <<>>]
NoneArgs == [none |-> TRUE, keys |-> {}, text |-> IntVal]
Dict(keys, v) == [none |-> FALSE, keys |-> keys, text |-> v]
\* Texts of tool calls: empty, blank, and not blank.
ToolTexts == {<<>>, <<" ">>, <<"a">>}
Arguments ==
    {NoneArgs, Dict({}, IntVal), Dict({"other"}, IntVal), Dict({"text"}, IntVal)}
        \cup {Dict({"text"}, StrVal(s)) : s \in ToolTexts}
\* The calls a client makes: read_aloud with any of these arguments, and a
\* tool the server does not have (whose arguments are never looked at).
ToolCalls ==
    {[name |-> "read_aloud", arguments |-> a] : a \in Arguments}
        \cup {[name |-> "other_tool", arguments |-> Dict({"text"}, StrVal(<<"a">>))]}
NoCall == [id |-> 0, name |-> "", arguments |-> NoneArgs]
NoWire == [id |-> 0, kind |-> "none", text |-> <<>>]

\* TTSHandler.__init__: no engine, mixer flag off.
NewHandler == [life |-> "live", tts_engine |-> 0, pygame_initialized |-> FALSE]
NoHandler == [NewHandler EXCEPT !.life = "none"]
\* init: engines pyttsx4.init() has returned; synth: save_to_file calls;
\* play: play_audio_file calls; mixer: pygame.mixer.init() calls.
NoStats == [init |-> 0, synth |-> 0, play |-> 0, mixer |-> 0]

\* A thread's frame.  fault is history: the step that failed in this call,
\* the message of the failure first raised there, and the exception that
\* left generate_speech or play_audio_file because of it.  rate is what
\* _get_tts_engine's setProperty("rate", 200) left behind when it returns:
\* "set", or "default" when setProperty raised; it is forgotten as soon as
\* generate_speech goes on.
NoFault == [step |-> "none", msg |-> <<>>, exc |-> NoExc]
Idle(p) == [pc |-> p, hnd |-> "srv", via |-> "none", text |-> <<>>,
            tts_engine |-> 0, rate |-> "", filename |-> <<>>, exc |-> NoExc, ret |-> <<>>,
            fault |-> NoFault]
Call(h, v, s) == [Idle("gs_check") EXCEPT !.hnd = h, !.via = v, !.text = s]

\* server.py is imported before main() runs: tts_handler = TTSHandler().
Init ==
    /\ argv \in Argvs
    /\ stdout = <<>>
    /\ events = <<>>
    /\ exitCode = -1
    /\ files = {}
    /\ now = 0
    /\ mixerUp = FALSE
    /\ handler = [h \in Handlers |-> IF h = "srv" THEN NewHandler ELSE NoHandler]
    /\ stats = [h \in Handlers |-> NoStats]
    /\ cleanups = [h \in Handlers |-> <<>>]
    /\ th = [t \in Threads |-> IF t = Main THEN Idle("main") ELSE Idle("none")]
    /\ call = NoCall
    /\ status = [r \in Workers |-> "idle"]
    /\ wire = NoWire

\* The with block without contextlib.suppress.
EscapesAll(raises) == raises

\* with contextlib.suppress(Exception): <body>
\* Whether an exception leaves the with block when its body raises one iff
\* `raises`: never, Exception and its subclasses are swallowed.
Escapes(raises) == FALSE

\* ------------------------------------------------- TTSHandler.read_aloud
\* Catch with "except ValueError" in place of "except Exception".
CatchValueError(v, e) ==
    IF v = "read_aloud" /\ e.type = "ValueError"
    THEN [pc |-> "returned", ret |-> ErrorPrefix \o e.msg, exc |-> NoExc]
    ELSE [pc |-> "raised", ret |-> <<>>, exc |-> e]

\* An exception e leaves generate_speech or play_audio_file while the outer
\* call is v: read_aloud's "except Exception" turns it into the error string,
\* a direct call lets it propagate.
Catch(v, e) ==
    IF v = "read_aloud"
    THEN [pc |-> "returned", ret |-> ErrorPrefix \o e.msg, exc |-> NoExc]
    ELSE [pc |-> "raised", ret |-> <<>>, exc |-> e]

\* The outer call is left: its locals text and tts_engine are gone.  What
\* stays is what the caller gets (ret or exc) and the history of the call
\* (its artifact's filename, its fault).
Pop(f) == [f EXCEPT !.text = <<>>, !.tts_engine = 0, !.rate = ""]

\* Thread t's outer call returns value v.
Return(t, v) == th' = [th EXCEPT ![t] = [Pop(@) EXCEPT !.pc = "returned", !.ret = v]]

\* Thread t raises e at step `step`; m is the message of the first failure.
Raise(t, step, m, e) ==
    LET c == Catch(th[t].via, e) IN
    th' = [th EXCEPT ![t] = [Pop(@) EXCEPT !.pc = c.pc, !.ret = c.ret, !.exc = c.exc,
                                           !.fault = [step |-> step, msg |-> m,
                                                      exc |-> e]]]

Bump(h, f) == stats' = [stats EXCEPT ![h][f] = @ + 1]

InCall(t, p) == th[t].pc = p
H(t) == th[t].hnd

\* --------------------------------------------- TTSHandler.generate_speech
\* if not text.strip(): raise ValueError("Text cannot be empty")
GsCheck(t) ==
    /\ InCall(t, "gs_check")
    /\ IF ~Truthy(strip(th[t].text))
       THEN Raise(t, "text", EmptyTextMsg, Exc("ValueError", EmptyTextMsg))
       ELSE th' = [th EXCEPT ![t].pc = "ge_test"]
    /\ UNCHANGED <<procVars, envVars, hVars, sVars>>

\* _get_tts_engine: if self._tts_engine is None
GeTest(t) ==
    /\ InCall(t, "ge_test")
    /\ IF handler[H(t)].tts_engine = 0
       THEN th' = [th EXCEPT ![t].pc = "ge_init"]
       ELSE th' = [th EXCEPT ![t].pc = "gs_name",
                             ![t].tts_engine = handler[H(t)].tts_engine]
    /\ UNCHANGED <<procVars, envVars, hVars, sVars>>

\* self._tts_engine = pyttsx4.init(): a new engine, or the call raises.
GeInit(t) ==
    /\ InCall(t, "ge_init")
    /\ \E ok \in BOOLEAN :
        IF ok
        THEN /\ handler' = [handler EXCEPT ![H(t)].tts_engine = stats[H(t)].init + 1]
             /\ Bump(H(t), "init")
             /\ th' = [th EXCEPT ![t].pc = "ge_rate"]
        ELSE /\ Raise(t, "init", InitMsg, Exc("EngineError", InitMsg))
             /\ UNCHANGED <<handler, stats>>
    /\ UNCHANGED <<procVars, envVars, cleanups, sVars>>

\* setProperty("rate", 200) outside any with block: its exception leaves
\* _get_tts_engine.
SetRateFatal(raises) == IF raises THEN Exc("EngineError", RateMsg) ELSE NoExc

\* with contextlib.suppress(Exception): setProperty("rate", 200)
\* The exception that leaves the with block when setProperty raises iff
\* `raises`.
SetRate(raises) == IF Escapes(raises) THEN Exc("EngineError", RateMsg) ELSE NoExc

\* ... then return self._tts_engine
GeRate(t) ==
    /\ InCall(t, "ge_rate")
    /\ \E raises \in BOOLEAN :
        LET e == SetRate(raises) IN
        IF e = NoExc
        THEN th' = [th EXCEPT ![t].pc = "gs_name",
                              ![t].rate = IF raises THEN "default" ELSE "set",
                              ![t].tts_engine = handler[H(t)].tts_engine]
        ELSE Raise(t, "rate", e.msg, e)
    /\ UNCHANGED <<procVars, envVars, hVars, sVars>>

\* filename = self._generate_timestamp_filename(): reads the clock, which has
\* moved on by some d since it was last read.
GsName(t) ==
    /\ InCall(t, "gs_name")
    /\ \E d \in Elapsed :
        /\ now + d <= MaxNow
        /\ now' = now + d
        /\ th' = [th EXCEPT ![t].pc = "gs_save", ![t].rate = "",
                            ![t].filename = TimestampFilename(now + d)]
    /\ UNCHANGED <<procVars, files, mixerUp, hVars, sVars>>

\* generate_speech returned output_path to its caller: read_aloud goes on to
\* play_audio_file(audio_path), a direct caller gets the path.
\* generate_speech's local tts_engine is gone.
\* f is the call's fault history from here on.
AfterGenerate(t, f) ==
    IF th[t].via = "read_aloud"
    THEN th' = [th EXCEPT ![t].pc = "pa_exists", ![t].tts_engine = 0,
                          ![t].fault = f]
    ELSE th' = [th EXCEPT ![t] = [Pop(@) EXCEPT !.pc = "returned",
                                                !.ret = th[t].filename, !.fault = f]]

\* tts_engine.save_to_file(text, path); tts_engine.runAndWait()
\* The engine writes the file, raises, or returns having written nothing.
GsSave(t) ==
    /\ InCall(t, "gs_save")
    /\ \E out \in {"written", "silent", "raises"} :
        CASE out = "written" ->
                /\ files' = files \cup {th[t].filename}
                /\ AfterGenerate(t, th[t].fault)
          [] out = "silent" ->
                /\ files' = files
                /\ AfterGenerate(t, [step |-> "silent", msg |-> <<>>, exc |-> NoExc])
          [] out = "raises" ->
                /\ files' = files
                /\ Raise(t, "synth", SynthMsg, Exc("EngineError", SynthMsg))
    /\ Bump(H(t), "synth")
    /\ UNCHANGED <<procVars, now, mixerUp, handler, cleanups, sVars>>

\* --------------------------------------------- TTSHandler.play_audio_file
\* PaExists with the existence check inside the try block: the
\* FileNotFoundError is wrapped like any playback failure.
PaExistsInTry(t) ==
    /\ InCall(t, "pa_exists")
    /\ IF th[t].filename \notin files
       THEN Raise(t, "missing", NotFoundMsg(th[t].filename),
                  Exc("RuntimeError", PlayFailMsg(NotFoundMsg(th[t].filename))))
       ELSE th' = [th EXCEPT ![t].pc = "pa_mixer"]
    /\ Bump(H(t), "play")
    /\ UNCHANGED <<procVars, envVars, handler, cleanups, sVars>>

\* PaExists without the existence check.
PaExistsNoCheck(t) ==
    /\ InCall(t, "pa_exists")
    /\ th' = [th EXCEPT ![t].pc = "pa_mixer"]
    /\ Bump(H(t), "play")
    /\ UNCHANGED <<procVars, envVars, handler, cleanups, sVars>>

\* if not file_path.exists(): raise FileNotFoundError (outside the try)
PaExists(t) ==
    /\ InCall(t, "pa_exists")
    /\ IF th[t].filename \notin files
       THEN Raise(t, "missing", NotFoundMsg(th[t].filename),
                  Exc("FileNotFoundError", NotFoundMsg(th[t].filename)))
       ELSE th' = [th EXCEPT ![t].pc = "pa_mixer"]
    /\ Bump(H(t), "play")
    /\ UNCHANGED <<procVars, envVars, handler, cleanups, sVars>>

\* if not self._pygame_initialized
PaMixer(t) ==
    /\ InCall(t, "pa_mixer")
    /\ th' = [th EXCEPT ![t].pc =
                IF handler[H(t)].pygame_initialized THEN "pa_sound" ELSE "pa_minit"]
    /\ UNCHANGED <<procVars, envVars, hVars, sVars>>

\* PaMixerInit with the two statements swapped: the flag is set before
\* pygame.mixer.init() is called.
PaMixerInitFlagFirst(t) ==
    /\ InCall(t, "pa_minit")
    /\ handler' = [handler EXCEPT ![H(t)].pygame_initialized = TRUE]
    /\ \E ok \in BOOLEAN :
        IF ok \/ mixerUp
        THEN /\ mixerUp' = TRUE
             /\ th' = [th EXCEPT ![t].pc = "pa_sound"]
        ELSE /\ Raise(t, "mixer", MixerMsg, Exc("RuntimeError", PlayFailMsg(MixerMsg)))
             /\ UNCHANGED mixerUp
    /\ Bump(H(t), "mixer")
    /\ UNCHANGED <<procVars, files, now, cleanups, sVars>>

\* pygame.mixer.init(); self._pygame_initialized = True
\* init() brings the mixer up or raises; on a mixer that is up already it
\* does nothing and returns.
\* A raise is wrapped: RuntimeError(f"Failed to play audio: {e}").
PaMixerInit(t) ==
    /\ InCall(t, "pa_minit")
    /\ \E ok \in BOOLEAN :
        IF ok \/ mixerUp
        THEN /\ mixerUp' = TRUE
             /\ handler' = [handler EXCEPT ![H(t)].pygame_initialized = TRUE]
             /\ th' = [th EXCEPT ![t].pc = "pa_sound"]
        ELSE /\ Raise(t, "mixer", MixerMsg, Exc("RuntimeError", PlayFailMsg(MixerMsg)))
             /\ UNCHANGED <<mixerUp, handler>>
    /\ Bump(H(t), "mixer")
    /\ UNCHANGED <<procVars, files, now, cleanups, sVars>>

\* sound = pygame.mixer.Sound(path); sound.play();
\* time.sleep(sound.get_length() + 0.1): the sound is loaded and played to
\* its end, or one of the calls raises (wrapped as above); Sound() raises
\* whenever the mixer is not initialized.  After it read_aloud returns
\* f"Successfully generated and played audio: {name}".
PaSound(t) ==
    /\ InCall(t, "pa_sound")
    /\ \E ok \in BOOLEAN :
        IF ~mixerUp
        THEN Raise(t, "nomixer", NoMixerMsg,
                   Exc("RuntimeError", PlayFailMsg(NoMixerMsg)))
        ELSE IF ok
        THEN Return(t, SuccessPrefix \o th[t].filename)
        ELSE Raise(t, "sound", SoundMsg, Exc("RuntimeError", PlayFailMsg(SoundMsg)))
    /\ UNCHANGED <<procVars, envVars, hVars, sVars>>

HandlerStep(t) ==
    \/ GsCheck(t) \/ GeTest(t) \/ GeInit(t) \/ GeRate(t) \/ GsName(t) \/ GsSave(t)
    \/ PaExists(t) \/ PaMixer(t) \/ PaMixerInit(t) \/ PaSound(t)

\* ----------------------------------------------------- TTSHandler.cleanup
\* cleanup() on a handler in state hs with the mixer in state m, when
\* engine.stop() raises iff stopRaises and pygame.mixer.quit() raises iff
\* quitRaises.  stop, quit: the calls it makes; raised: an exception leaves
\* cleanup, which then ends where that exception was raised.
cleanup(hs, m, stopRaises, quitRaises) ==
    LET stop == hs.tts_engine # 0
        e1 == stop /\ stopRaises /\ Escapes(stopRaises)
        quit == ~e1 /\ hs.pygame_initialized
        e2 == quit /\ quitRaises /\ Escapes(quitRaises)
    IN  [tts_engine |-> IF e1 THEN hs.tts_engine ELSE 0,
         pygame_initialized |-> IF e1 \/ e2 THEN hs.pygame_initialized ELSE FALSE,
         mixerUp |-> IF quit /\ ~quitRaises THEN FALSE ELSE m,
         raised |-> e1 \/ e2,
         stop |-> stop,
         quit |-> quit,
         stopRaised |-> stop /\ stopRaises,
         quitRaised |-> quit /\ quitRaises]

\* The state change of one cleanup() call on handler h, logged in cleanups.
DoCleanup(h, by) ==
    \E stopRaises, quitRaises \in BOOLEAN :
        LET c == cleanup(handler[h], mixerUp, stopRaises, quitRaises) IN
        \* a call that is not made does not raise
        /\ stopRaises => c.stop
        /\ quitRaises => c.quit
        /\ handler' = [handler EXCEPT
                ![h].tts_engine = c.tts_engine,
                ![h].pygame_initialized = c.pygame_initialized,
                ![h].life = IF by = "del" THEN "deleted" ELSE @]
        /\ mixerUp' = c.mixerUp
        /\ cleanups' = [cleanups EXCEPT ![h] = Append(@,
                [by |-> by, raised |-> c.raised, stop |-> c.stop, quit |-> c.quit,
                 stopRaised |-> c.stopRaised, quitRaised |-> c.quitRaised])]

\* TTSHandler.__del__: the interpreter finalizes a handler when the process
\* ends (and run_oneshot's local handler no earlier than run_oneshot's end).
Del(h) ==
    /\ th[Main].pc = "exited"
    /\ handler[h].life = "live"
    /\ DoCleanup(h, "del")
    /\ events' = Append(events, "del")
    /\ UNCHANGED <<argv, stdout, exitCode, files, now, stats, th, sVars>>

\* ------------------------------------------------------------------ main
\* if args.text: run_oneshot(args.text, not args.no_play) else: run_server()
main(a) == IF a.text.given /\ Truthy(a.text.val) THEN "run_oneshot" ELSE "run_server"

MainStart ==
    /\ th[Main].pc = "main"
    /\ th' = [th EXCEPT ![Main].pc = main(argv)]
    /\ UNCHANGED <<procVars, envVars, hVars, sVars>>

\* ------------------------------------------------------------ run_oneshot
\* play_audio when --no-play is ignored.
play_audio_always == TRUE

\* The line prefixes: U+2713 (check mark) and U+2717 (ballot x) "Error: ".
OkMark == <<"U+2713 ">>
ErrMark == <<"U+2717 Error: ">>
play_audio == ~argv.no_play

\* print(f"Converting text to speech: ..."); handler = None
OsBegin ==
    /\ th[Main].pc = "run_oneshot"
    /\ stdout' = Append(stdout, <<"Converting text to speech: ">> \o Preview(argv.text.val))
    /\ events' = Append(events, "begin")
    /\ th' = [th EXCEPT ![Main].pc = "os_new"]
    /\ UNCHANGED <<argv, exitCode, envVars, hVars, sVars>>

\* handler = TTSHandler() (mkdir may raise), then the call the flag selects:
\* handler.read_aloud(text) or handler.generate_speech(text).
OsNew ==
    /\ th[Main].pc = "os_new"
    /\ \E ok \in BOOLEAN :
        IF ok
        THEN /\ handler' = [handler EXCEPT !["one"] = NewHandler]
             /\ th' = [th EXCEPT ![Main] =
                    Call("one", IF play_audio THEN "read_aloud" ELSE "generate_speech",
                         argv.text.val)]
        ELSE /\ handler' = handler
             /\ th' = [th EXCEPT ![Main].pc = "raised",
                                 ![Main].exc = Exc("OSError", MkdirMsg),
                                 ![Main].fault = [step |-> "mkdir", msg |-> MkdirMsg,
                                                  exc |-> Exc("OSError", MkdirMsg)]]
    /\ UNCHANGED <<procVars, envVars, stats, cleanups, sVars>>

\* result = the string read_aloud returned, or f"Audio saved to: {name}";
\* print(OkMark + result)
OsPrint ==
    /\ th[Main].pc = "returned"
    /\ LET result == IF play_audio THEN th[Main].ret
                     ELSE <<"Audio saved to: ">> \o th[Main].ret
       IN stdout' = Append(stdout, OkMark \o result)
    /\ events' = Append(events, "status")
    /\ th' = [th EXCEPT ![Main].pc = "os_finally"]
    /\ UNCHANGED <<argv, exitCode, envVars, hVars, sVars>>

\* except Exception as e: print(ErrMark + str(e)); sys.exit(1)
\* SystemExit is now in flight through the finally block.
OsExcept ==
    /\ th[Main].pc = "raised"
    /\ stdout' = Append(stdout, ErrMark \o th[Main].exc.msg)
    /\ events' = Append(events, "status")
    /\ th' = [th EXCEPT ![Main].pc = "os_finally", ![Main].exc = Exc("SystemExit", <<"1">>)]
    /\ UNCHANGED <<argv, exitCode, envVars, hVars, sVars>>

\* OsFinally with the cleanup after the try statement instead of in its
\* finally clause: it is skipped when sys.exit(1) was called.
OsFinallyAfterTry ==
    /\ th[Main].pc = "os_finally"
    /\ IF handler["one"].life # "none" /\ th[Main].exc.type # "SystemExit"
       THEN /\ DoCleanup("one", "finally")
            /\ events' = Append(events, "cleanup")
       ELSE UNCHANGED <<handler, mixerUp, cleanups, events>>
    /\ th' = [th EXCEPT ![Main].pc = "os_end"]
    /\ UNCHANGED <<argv, stdout, exitCode, files, now, stats, sVars>>

\* finally: if handler is not None: handler.cleanup(); time.sleep(0.5)
OsFinally ==
    /\ th[Main].pc = "os_finally"
    /\ IF handler["one"].life # "none"
       THEN /\ DoCleanup("one", "finally")
            /\ events' = Append(events, "cleanup")
       ELSE UNCHANGED <<handler, mixerUp, cleanups, events>>
    /\ th' = [th EXCEPT ![Main].pc = "os_end"]
    /\ UNCHANGED <<argv, stdout, exitCode, files, now, stats, sVars>>

\* run_oneshot is left: by SystemExit(1) if sys.exit was called, else main
\* returns and the process ends with status 0.
OsExit ==
    /\ th[Main].pc = "os_end"
    /\ exitCode' = IF th[Main].exc.type = "SystemExit" THEN 1 ELSE 0
    /\ events' = Append(events, "exit")
    /\ th' = [th EXCEPT ![Main].pc = "exited"]
    /\ UNCHANGED <<argv, stdout, envVars, hVars, sVars>>

\* ------------------------------------------------------------- run_server
\* print("Starting MCP Text-to-Speech Server..."); app.run(...) serves
\* requests on the event loop of the main thread.  run_server takes nothing
\* from the command line, which is not read again: the model forgets it.
NoArgv == [text |-> NoText, no_play |-> FALSE]

SrvBegin ==
    /\ th[Main].pc = "run_server"
    /\ stdout' = Append(stdout, <<"Starting MCP Text-to-Speech Server...">>)
    /\ events' = Append(events, "begin")
    /\ argv' = NoArgv
    /\ th' = [th EXCEPT ![Main].pc = "srv_loop"]
    /\ UNCHANGED <<exitCode, envVars, hVars, sVars>>

\* ------------------------------------------------------- handle_call_tool
\* Validate without the isinstance(text, str) check.
ValidateNoType(name, arguments) ==
    IF name # "read_aloud"
    THEN Exc("ValueError", <<"Unknown tool: ", name>>)
    ELSE IF arguments.none \/ arguments.keys = {} \/ "text" \notin arguments.keys
    THEN Exc("ValueError", <<"Missing required argument: text">>)
    ELSE NoExc

\* The checks before dispatch: the ValueError raised, or NoExc.
Validate(name, arguments) ==
    IF name # "read_aloud"
    THEN Exc("ValueError", <<"Unknown tool: ", name>>)
    ELSE IF arguments.none \/ arguments.keys = {} \/ "text" \notin arguments.keys
    THEN Exc("ValueError", <<"Missing required argument: text">>)
    ELSE IF arguments.text.type # "str"
    THEN Exc("ValueError", <<"Argument 'text' must be a string">>)
    ELSE NoExc

\* tts_handler.read_aloud(text) called in the coroutine itself: it runs on
\* the event loop's thread.
ExecutorInline(r) == Main

\* loop.run_in_executor(None, tts_handler.read_aloud, text): the thread that
\* runs read_aloud for call r is the executor's worker thread r.
Executor(r) == r

\* The event loop runs handle_call_tool(name, arguments) for call r up to its
\* await: it raises, or hands read_aloud to the executor and yields.
CallTool(r, name, arguments) ==
    /\ th[Main].pc = "srv_loop"
    /\ status[r] = "idle"
    /\ \A q \in 1..(r - 1) : status[q] # "idle"
    /\ call' = [id |-> r, name |-> name, arguments |-> arguments]
    /\ LET e == Validate(name, arguments) IN
       IF e # NoExc
       THEN /\ status' = [status EXCEPT ![r] = "rejected"]
            /\ wire' = [id |-> r, kind |-> "error", text |-> e.msg]
            /\ th' = th
       ELSE /\ status' = [status EXCEPT ![r] = "running"]
            /\ wire' = wire
            /\ th' = [th EXCEPT ![Executor(r)] =
                        Call("srv", "read_aloud", arguments.text.val)]
    /\ UNCHANGED <<procVars, envVars, hVars>>

\* The executor's future is done: the loop resumes handle_call_tool, which
\* returns [TextContent(type="text", text=result)].
Deliver(r) ==
    /\ th[Main].pc = "srv_loop"
    /\ status[r] = "running"
    /\ th[r].pc = "returned"
    /\ wire' = [id |-> r, kind |-> "result", text |-> th[r].ret]
    /\ status' = [status EXCEPT ![r] = "done"]
    /\ th' = [th EXCEPT ![r] = Idle("none")]
    /\ UNCHANGED <<procVars, envVars, hVars, call>>

\* The transport is closed by the client: app.run returns once no call is in
\* flight, asyncio.run ends the loop and the process ends with status 0.
SrvStop ==
    /\ th[Main].pc = "srv_loop"
    /\ \A r \in Workers : status[r] # "running"
    /\ exitCode' = 0
    /\ events' = Append(events, "exit")
    /\ th' = [th EXCEPT ![Main].pc = "exited"]
    /\ UNCHANGED <<argv, stdout, envVars, hVars, sVars>>

\* ------------------------------------------------------------------ Next
Next ==
    \/ MainStart
    \/ OsBegin \/ OsNew \/ OsPrint \/ OsExcept \/ OsFinally \/ OsExit
    \/ SrvBegin \/ SrvStop
    \/ \E r \in Workers, c \in ToolCalls : CallTool(r, c.name, c.arguments)
    \/ \E r \in Workers : Deliver(r)
    \/ \E t \in Threads : HandlerStep(t)
    \/ \E h \in Handlers : Del(h)

Spec == Init /\ [][Next]_vars

\* Scheduling: a thread of the executor's pool that can take a step is given
\* the processor sooner or later (every engine call returns or raises), and
\* the event loop resumes a handle_call_tool whose future is done.
Fairness == \A r \in Workers : WF_vars(HandlerStep(r)) /\ WF_vars(Deliver(r))

FairSpec == Spec /\ Fairness

\* ================================================================ claims
CallPcs == {"gs_check", "ge_test", "ge_init", "ge_rate", "gs_name", "gs_save",
            "pa_exists", "pa_mixer", "pa_minit", "pa_sound"}

\* The process ran run_oneshot / run_server (the first line it printed).
OneShotMode == stdout # <<>> /\ stdout[1][1] = "Converting text to speech: "
ServerMode == stdout # <<>> /\ stdout[1] = <<"Starting MCP Text-to-Speech Server...">>
OneShotDone == OneShotMode /\ th[Main].pc = "exited"

\* Thread t's read_aloud call is over.
ReadAloudOver(t) == th[t].via = "read_aloud" /\ th[t].pc \notin CallPcs

\* ------------------------------------------------------------------- C1
\* C1 as stated: read_aloud never lets an exception out; it returns
\* "Error processing text-to-speech: " followed by the message of the
\* original failure whenever a step failed, and "Successfully generated and
\* played audio: <artifact filename>" otherwise.
C1_ErrorCarriesOriginalMessage ==
    \A t \in Threads :
        ReadAloudOver(t) =>
            /\ th[t].pc # "raised"
            /\ th[t].ret = IF th[t].fault.exc = NoExc
                           THEN SuccessPrefix \o th[t].filename
                           ELSE ErrorPrefix \o th[t].fault.msg

\* What read_aloud returns after a call with fault history f and artifact
\* name: a failure of mixer.init() or of loading/playing the sound shows as
\* "Failed to play audio: <its message>", every other failure as its message.
C1_Expected(f, name) ==
    CASE f.step \in {"none", "silent"} -> SuccessPrefix \o name
      [] f.step = "text" -> ErrorPrefix \o <<"Text cannot be empty">>
      [] f.step \in {"init", "synth"} -> ErrorPrefix \o f.msg
      [] f.step = "missing" -> ErrorPrefix \o <<"Audio file not found: ", "audio_outputs/">> \o name
      [] f.step \in {"mixer", "sound"} -> ErrorPrefix \o <<"Failed to play audio: ">> \o f.msg
      [] OTHER -> <<"unexpected">>

\* C1 amended: read_aloud never lets an exception out and always returns a
\* string: the success message naming the artifact when no step failed,
\* else the error prefix followed by the failure's message, which for a
\* mixer or playback failure is "Failed to play audio: <original message>".
C1_ReadAloudNeverRaises ==
    \A t \in Threads :
        ReadAloudOver(t) =>
            /\ th[t].pc # "raised"
            /\ th[t].exc.type \notin ExceptionTypes
            /\ th[t].ret = C1_Expected(th[t].fault, th[t].filename)

\* A read_aloud call in which mixer.init() raised has returned.
C1_Witness ==
    \E t \in Threads :
        ReadAloudOver(t) /\ th[t].pc = "returned" /\ th[t].fault.step = "mixer"

\* ------------------------------------------------------------------- C2
\* A step of the one-shot run raised.
OneShotFailed == th[Main].fault.step \notin {"none", "silent"}

\* C2: in one-shot mode every failure ends in an error-prefixed line and a
\* non-zero exit status, and exit status 0 only follows success.
C2_FailureExitsNonZero ==
    OneShotDone =>
        /\ OneShotFailed =>
                /\ exitCode # 0
                /\ SubSeq(stdout[Len(stdout)], 1, Len(ErrMark)) = ErrMark
        /\ exitCode = 0 => ~OneShotFailed

\* ------------------------------------------------------------------- C3
\* C3: whenever --text is supplied, whatever its value, main runs
\* run_oneshot and never run_server; run_server is run only without --text.
C3_TextMeansOneShot ==
    /\ th[Main].pc = "run_server" => ~argv.text.given
    /\ th[Main].pc = "run_oneshot" => argv.text.given

\* ------------------------------------------------------------------- C4
\* The arguments the claim is about: absent, without "text", or with a
\* "text" that is not a string.
BadArguments(a) == a.none \/ "text" \notin a.keys \/ a.text.type # "str"

\* C4: when handle_call_tool takes up a call with such arguments, that step
\* answers with an error and dispatches nothing: no thread is started, the
\* handlers (engine handle, mixer flag) are as before, no handler method is
\* called and no file is created; and a rejected call is never run later.
C4_RejectBeforeDispatch ==
    [][/\ (call'.id # call.id /\ BadArguments(call'.arguments)) =>
            /\ status'[call'.id] = "rejected"
            /\ wire'.id = call'.id /\ wire'.kind = "error"
            /\ UNCHANGED <<th, handler, stats, files, mixerUp>>
       /\ \A r \in Workers :
            status[r] = "rejected" =>
                status'[r] = "rejected" /\ th'[r].pc = "none"]_vars

\* A call whose "text" is not a string was rejected while another call was
\* being served.
C4_Witness ==
    /\ call.id = 2
    /\ call.name = "read_aloud"
    /\ ~call.arguments.none /\ "text" \in call.arguments.keys
    /\ call.arguments.text.type # "str"
    /\ status[2] = "rejected"
    /\ status[1] = "running"

\* ------------------------------------------------------------------- C5
IsBlank(s) == \A i \in 1..Len(s) : s[i] = " "

\* C5: the step of generate_speech that looks at an empty or blank text
\* ends the call with ValueError("Text cannot be empty") and changes
\* neither the handler (the engine handle stays as it was), nor the count
\* of engines created or of synthesis calls, nor the files.
C5_BlankTextRejectedFirst ==
    [][\A t \in Threads :
        (th[t].pc = "gs_check" /\ IsBlank(th[t].text) /\ th'[t] # th[t]) =>
            /\ th'[t].pc \in {"returned", "raised"}
            /\ th'[t].fault = [step |-> "text", msg |-> <<"Text cannot be empty">>,
                               exc |-> Exc("ValueError", <<"Text cannot be empty">>)]
            /\ UNCHANGED <<handler, stats, files, mixerUp>>]_vars

\* A direct generate_speech call with a blank text has raised on a handler
\* that never acquired an engine and wrote no file.
C5_Witness ==
    /\ th[Main].via = "generate_speech"
    /\ th[Main].pc = "raised"
    /\ th[Main].exc = Exc("ValueError", <<"Text cannot be empty">>)
    /\ handler["one"].tts_engine = 0
    /\ stats["one"].init = 0 /\ stats["one"].synth = 0
    /\ files = {}

\* ------------------------------------------------------------------- C6
\* C6: the step of play_audio_file that finds its path missing ends the
\* call with FileNotFoundError (not the RuntimeError of a playback
\* failure) and leaves the mixer, the handler's mixer flag and the count
\* of mixer.init() calls as they were.
C6_MissingFileNotPlayed ==
    [][\A t \in Threads :
        (th[t].pc = "pa_exists" /\ th[t].filename \notin files /\ th'[t] # th[t]) =>
            /\ th'[t].pc \in {"returned", "raised"}
            /\ th'[t].fault.step = "missing"
            /\ th'[t].fault.exc =
                    Exc("FileNotFoundError",
                        <<"Audio file not found: ", "audio_outputs/">> \o th[t].filename)
            /\ UNCHANGED <<mixerUp, handler>>
            /\ stats'[th[t].hnd].mixer = stats[th[t].hnd].mixer]_vars

\* A read_aloud call whose artifact was missing at playback is over.
C6_Witness ==
    \E t \in Threads :
        /\ ReadAloudOver(t)
        /\ th[t].fault.step = "missing"
        /\ th[t].filename \notin files

\* ------------------------------------------------------------------- C7
\* The handler state a cleanup result c leaves behind.
AfterCleanup(hs, c) ==
    [hs EXCEPT !.tts_engine = c.tts_engine, !.pygame_initialized = c.pygame_initialized]

\* C7: in every reachable state of every handler, whether or not stop() and
\* quit() raise, cleanup() returns normally and leaves _tts_engine = None
\* and _pygame_initialized = False, and cleanup() again right after makes no
\* call, returns normally and changes nothing; and every cleanup() call made
\* so far returned normally.
C7_CleanupIdempotent ==
    \A h \in Handlers :
        /\ \A i \in 1..Len(cleanups[h]) : ~cleanups[h][i].raised
        /\ handler[h].life # "none" =>
            \A s1, q1, s2, q2 \in BOOLEAN :
                LET c1 == cleanup(handler[h], mixerUp, s1, q1)
                    h1 == AfterCleanup(handler[h], c1)
                    c2 == cleanup(h1, c1.mixerUp, s2, q2)
                IN  /\ ~c1.raised
                    /\ c1.tts_engine = 0 /\ ~c1.pygame_initialized
                    /\ ~c2.raised /\ ~c2.stop /\ ~c2.quit
                    /\ AfterCleanup(h1, c2) = h1
                    /\ c2.mixerUp = c1.mixerUp

\* cleanup() ran twice on a handler: the first call stopped a Ready engine
\* (stop() raised) and quit the mixer (quit() raised), the second found
\* nothing to do.
C7_Witness ==
    /\ Len(cleanups["one"]) = 2
    /\ cleanups["one"][1].stopRaised /\ cleanups["one"][1].quitRaised
    /\ ~cleanups["one"][2].stop /\ ~cleanups["one"][2].quit
    /\ handler["one"].tts_engine = 0 /\ ~handler["one"].pygame_initialized

\* ------------------------------------------------------------------- C8
\* C8: in server mode the main thread, which runs the event loop, is never
\* inside read_aloud: every call being served is run by its own executor
\* thread, and while calls are being served the loop stands ready to take
\* up the next request.
C8_ReadAloudOffTheLoop ==
    ServerMode =>
        /\ th[Main].via = "none"
        /\ th[Main].pc \in {"srv_loop", "exited"}
        /\ \A r \in Workers :
            status[r] = "running" =>
                /\ th[Main].pc = "srv_loop"
                /\ th[r].via = "read_aloud"
                /\ th[r].pc \in CallPcs \cup {"returned"}
                /\ \A q \in Workers :
                    (status[q] = "idle" /\ \A p \in 1..(q - 1) : status[p] # "idle") =>
                        ENABLED CallTool(q, "read_aloud", Dict({"text"}, StrVal(<<"a">>)))

\* A second read_aloud call is generating while the first is still playing.
C8_Witness ==
    /\ status[1] = "running" /\ th[1].pc = "pa_sound"
    /\ status[2] = "running" /\ th[2].pc = "gs_save"

\* ------------------------------------------------------------------- C9
\* The cleanup() calls run_oneshot itself has made on its handler.
FinallyCleanups == {i \in 1..Len(cleanups["one"]) : cleanups["one"][i].by = "finally"}

\* C9: run_oneshot never calls cleanup() twice, and a one-shot run that
\* constructed its handler ends having printed its status line, then called
\* cleanup() once, then exited, in that order.
C9_CleanupOnceBeforeExit ==
    /\ Cardinality(FinallyCleanups) <= 1
    /\ (OneShotDone /\ handler["one"].life # "none") =>
            /\ Cardinality(FinallyCleanups) = 1
            /\ Len(events) >= 4
            /\ SubSeq(events, 1, 4) = <<"begin", "status", "cleanup", "exit">>
            /\ Len(stdout) = 2

\* A one-shot run in which generate_speech raised and sys.exit(1) was taken
\* has ended, its engine acquired and then cleaned up.
C9_Witness ==
    /\ OneShotDone
    /\ exitCode = 1
    /\ th[Main].fault.step = "synth"
    /\ Cardinality(FinallyCleanups) = 1
    /\ cleanups["one"][1].stop

\* ------------------------------------------------------------------ C10
\* C10: a one-shot run with --no-play calls generate_speech only:
\* play_audio_file is never called, the mixer is never initialised, and
\* when generation succeeded the status line is "Audio saved to: " followed
\* by the name of the artifact, which is a file of the output directory.
C10_NoPlayGeneratesOnly ==
    (OneShotMode /\ argv.no_play) =>
        /\ th[Main].via \in {"none", "generate_speech"}
        /\ th[Main].pc \notin {"pa_exists", "pa_mixer", "pa_minit", "pa_sound"}
        /\ stats["one"].play = 0
        /\ stats["one"].mixer = 0
        /\ ~handler["one"].pygame_initialized
        /\ ~mixerUp
        /\ (Len(stdout) >= 2 /\ th[Main].fault.step = "none") =>
                /\ stdout[2] = <<"U+2713 ", "Audio saved to: ">> \o th[Main].filename
                /\ th[Main].filename \in files

\* A --no-play run has ended with status 0 and its artifact on disk.
C10_Witness ==
    /\ OneShotDone
    /\ argv.no_play
    /\ exitCode = 0
    /\ th[Main].fault.step = "none"
    /\ th[Main].filename \in files
    /\ stats["one"].synth = 1

\* ------------------------------------------------------------------ C11
\* The calls that have been given a filename and not yet been taken off
\* their thread.
Named == {t \in Threads : th[t].filename # <<>>}
Generated(t) == th[t].pc \in {"pa_exists", "pa_mixer", "pa_minit", "pa_sound", "returned"}
Wrote(t) ==
    t \in Named /\ Generated(t) /\ th[t].fault.step \notin {"silent", "synth", "missing"}

\* C11 as stated: each call gets a filename of its own, so no two calls
\* share one and no write lands on another call's file.
C11_OwnFilePerCall ==
    \A t, u \in Named : t # u => th[t].filename # th[u].filename

\* The milliseconds the clock has shown so far.
MsSoFar == 0..(now \div UsPerMs)

\* C11, amended: a filename is the millisecond of the call's clock reading
\* and nothing else, so the directory holds at most one file per
\* millisecond the clock has shown, however many calls have written.
C11_OneFilePerMillisecond ==
    /\ \A f \in files \cup {th[t].filename : t \in Named} :
            \E ms \in MsSoFar : f = <<ToString(ms), ".wav">>
    /\ Cardinality(files) <= Cardinality(MsSoFar)

\* Two calls whose clock readings fell in the same millisecond have both
\* written their audio, and the directory holds one file.
C11_Witness ==
    /\ Wrote(1) /\ Wrote(2)
    /\ th[1].filename = th[2].filename
    /\ Cardinality(files) = 1

\* ------------------------------------------------------------------ C12
\* The engines handler h has been given by pyttsx4.init() and has not
\* given up in cleanup.
Stopped(h) == Cardinality({i \in 1..Len(cleanups[h]) : cleanups[h][i].stop})
LiveEngines(h) == stats[h].init - Stopped(h)

\* C12: a handler never has more than one live engine, whatever the
\* interleaving of the threads that run _get_tts_engine on it.
C12_AtMostOneLiveEngine == \A h \in Handlers : LiveEngines(h) <= 1

\* ------------------------------------------------------------------ C13
\* C13: a handler's engine handle changes only from Uninitialized to Ready,
\* by the first engine pyttsx4.init() has returned for this handler, and
\* from Ready to Released; no second engine is ever acquired.
C13_EngineInitializedOnce ==
    [][\A h \in Handlers :
        handler'[h].tts_engine # handler[h].tts_engine =>
            \/ handler[h].tts_engine = 0 /\ stats[h].init = 0 /\ stats'[h].init = 1
            \/ handler'[h].tts_engine = 0]_vars

\* ------------------------------------------------------------------ C14
\* The threads that are inside generate_speech or play_audio_file of
\* handler h.
Inside(h) == {t \in Threads : th[t].hnd = h /\ th[t].pc \in CallPcs}

\* C14: in server mode at most one read_aloud invocation at a time is
\* inside the shared handler's generate_speech or play_audio_file.
C14_SerializedAccess == ServerMode => Cardinality(Inside("srv")) <= 1

\* ------------------------------------------------------------------ C15
GenPcs == {"gs_check", "ge_test", "ge_init", "ge_rate", "gs_name", "gs_save"}
PlayPcs == {"pa_exists", "pa_mixer", "pa_minit", "pa_sound"}
\* The failures that end generate_speech with an exception.
GenFaults == {"text", "init", "rate", "synth"}
IsSuccess(v) == Len(v) > Len(SuccessPrefix) /\ SubSeq(v, 1, Len(SuccessPrefix)) = SuccessPrefix

\* C15: within one read_aloud call, play_audio_file is entered only by the
\* step in which generate_speech returns, with the path that call made and
\* no exception; a call whose generation failed is over and is never inside
\* play_audio_file; playback goes past the existence check only with the
\* file there; and the success string is returned only by the step that
\* ends a playback that went through, for the file of this call.
C15_GenerateThenPlay ==
    [][\A t \in Threads :
        /\ (th'[t].pc \in PlayPcs /\ th[t].pc \notin PlayPcs) =>
                /\ th[t].pc = "gs_save" /\ th'[t].pc = "pa_exists"
                /\ th[t].via = "read_aloud"
                /\ th'[t].filename = th[t].filename /\ th[t].filename # <<>>
                /\ th'[t].fault.step \notin GenFaults
                /\ stats'[H(t)].synth = stats[H(t)].synth + 1
        /\ th'[t].fault.step \in GenFaults => th'[t].pc \notin CallPcs
        /\ th'[t].pc \in PlayPcs \ {"pa_exists"} => th'[t].filename \in files'
        /\ (IsSuccess(th'[t].ret) /\ th[t].ret = <<>>) =>
                /\ th[t].pc = "pa_sound" /\ mixerUp
                /\ th'[t].ret = SuccessPrefix \o th[t].filename
                /\ th[t].filename \in files
                /\ th'[t].fault.step \in {"none", "silent"}]_vars

\* A read_aloud call has returned the success string while another call,
\* whose synthesis raised, has returned its error without playing.
C15_Witness ==
    /\ IsSuccess(th[1].ret) /\ th[1].pc = "returned"
    /\ th[2].fault.step = "synth" /\ th[2].pc = "returned"
    /\ stats["srv"].synth = 2 /\ stats["srv"].play = 1

\* ------------------------------------------------------------------ C16
\* C16: a read_aloud call that has been dispatched is answered in the end,
\* whatever else is in flight; it leaves "running" only by being answered,
\* with the string its read_aloud returned, and is answered once.
C16_DispatchedCallCompletes ==
    /\ \A r \in Workers : (status[r] = "running") ~> (status[r] = "done")
    /\ [][\A r \in Workers :
            /\ status[r] = "running" => status'[r] \in {"running", "done"}
            /\ status[r] = "done" => status'[r] = "done"
            /\ (status[r] = "running" /\ status'[r] = "done") =>
                    /\ th[r].pc = "returned"
                    /\ wire' = [id |-> r, kind |-> "result", text |-> th[r].ret]
                    /\ th[r].ret # <<>>
            /\ (wire' # wire /\ wire'.id = r) => status[r] \notin {"done", "rejected"}]_vars

\* Call 2 has been answered with a result while call 1, dispatched before
\* it, is still being served.
C16_Witness ==
    /\ status[2] = "done" /\ wire.id = 2 /\ wire.kind = "result"
    /\ status[1] = "running" /\ th[1].pc \in CallPcs

\* ------------------------------------------------------------------ C17
IsError(v) == Len(v) > Len(ErrorPrefix) /\ SubSeq(v, 1, Len(ErrorPrefix)) = ErrorPrefix

\* C17: whatever invocations have failed before, the server is still
\* serving: its loop has not ended with an error, the shared handler is
\* alive, the next call is taken up, and an invocation fails only through
\* a failure of its own (its text, an engine call that raises, its file
\* missing), never through what an earlier failure left in the handler; an
\* invocation that meets no failure returns the success string.
C17_ServerSurvivesFailure ==
    ServerMode =>
        /\ exitCode \in {-1, 0}
        /\ th[Main].pc = "srv_loop" =>
                /\ handler["srv"].life = "live"
                /\ \A r \in Workers :
                      (status[r] = "idle" /\ \A q \in 1..(r - 1) : status[q] # "idle") =>
                          ENABLED (\E c \in ToolCalls : CallTool(r, c.name, c.arguments))
        /\ \A r \in Workers :
              /\ th[r].fault.step # "nomixer"
              /\ th[r].pc \in CallPcs => ENABLED HandlerStep(r)
              /\ (th[r].pc = "returned" /\ th[r].fault.step = "none") =>
                    IsSuccess(th[r].ret)

\* The error result of call 1, whose mixer initialisation failed, has been
\* delivered; call 2 has initialised the mixer again and has returned the
\* success string.
C17_Witness ==
    /\ status[1] = "done" /\ wire.id = 1 /\ IsError(wire.text)
    /\ wire.text = ErrorPrefix \o PlayFailMsg(MixerMsg)
    /\ stats["srv"].mixer = 2
    /\ status[2] = "running" /\ th[2].pc = "returned" /\ IsSuccess(th[2].ret)

\* ------------------------------------------------------------------ C18
\* C18: no call ever ends because setProperty("rate", 200) raised; when it
\* has raised, _get_tts_engine has returned an engine this handler
\* acquired, the handle is Ready, nothing is recorded as failed, and
\* generate_speech is about to name its file and go on to synthesis.
C18_RateFailureNotFatal ==
    \A t \in Threads :
        /\ th[t].fault.step # "rate"
        /\ th[t].rate = "default" =>
                /\ th[t].pc = "gs_name"
                /\ th[t].tts_engine \in 1..stats[H(t)].init
                /\ handler[H(t)].tts_engine # 0
                /\ th[t].fault = NoFault /\ th[t].exc = NoExc
                /\ ENABLED GsName(t)
        /\ th[t].pc = "ge_rate" => ENABLED GeRate(t)

\* Both calls have just acquired an engine (the check-then-init race), and in
\* one the rate could not be set and in the other it could; both go on.
C18_Witness ==
    /\ th[1].rate = "default" /\ th[1].pc = "gs_name"
    /\ th[2].rate = "set" /\ th[2].pc = "gs_name"

\* ------------------------------------------------------------------ C19
Flag(h) == handler[h].pygame_initialized

\* C19: the flag of a handler is on only while the mixer is up, after a
\* pygame.mixer.init() of this handler and before any cleanup of it.  It
\* goes on only in the step of a call on this handler in which
\* pygame.mixer.init() returned, and goes off only in a cleanup of this
\* handler.  The step in which pygame.mixer.init() raises does not touch
\* the handler and leaves the flag off, and the step in which the playback
\* raises finds the flag on and leaves it on.
C19_FlagTracksMixer ==
    [][/\ \A h \in Handlers :
            /\ Flag(h)' => mixerUp' /\ stats'[h].mixer >= 1 /\ cleanups'[h] = <<>>
            /\ (~Flag(h) /\ Flag(h)') =>
                    \E t \in Threads :
                        /\ H(t) = h /\ th[t].pc = "pa_minit"
                        /\ th'[t].pc = "pa_sound" /\ th'[t].fault = th[t].fault
                        /\ stats'[h].mixer = stats[h].mixer + 1
            /\ (Flag(h) /\ ~Flag(h)') => Len(cleanups'[h]) = Len(cleanups[h]) + 1
       /\ \A t \in Threads :
            /\ (th[t].pc = "pa_minit" /\ th'[t].fault.step = "mixer") =>
                    /\ handler' = handler /\ mixerUp' = mixerUp
                    /\ ~Flag(H(t))'
            /\ (th[t].pc = "pa_sound" /\ th'[t].fault.step = "sound") =>
                    Flag(H(t)) /\ Flag(H(t))']_vars

\* Call 1 failed in pygame.mixer.init(); call 2 then initialised the mixer
\* and failed in playback: the flag is on.
C19_Witness ==
    /\ th[1].fault.step = "mixer"
    /\ th[2].fault.step = "sound"
    /\ stats["srv"].mixer = 2
    /\ Flag("srv") /\ mixerUp

=============================================================================
